---------------------------- MODULE Spec2Model ----------------------------
(***************************************************************************)
(* starbot: a Matrix bot that relays the bot account's own star reactions  *)
(* into a dedicated "star room".                                           *)
(*                                                                         *)
(* The model follows the single asyncio stream of control:                  *)
(*   main()  (src/star_bot/main.py)  - the reconnect loop: authenticate,    *)
(*            join the star room, sync_forever, except/finally;             *)
(*   Callbacks.unknown / Callbacks._reaction (src/star_bot/callbacks.py)    *)
(*            - run inside sync_forever for every UnknownEvent.             *)
(* `pc` is the position of that stream of control.  Every awaited client    *)
(* call is a step whose outcome (result, typed error, raised exception) is  *)
(* chosen by the environment.                                               *)
(* A handler that awaits client.sync() is suspended on `stack` while the     *)
(* callback runs for an event that sync delivered.                          *)
(***************************************************************************)
EXTENDS Integers, Sequences, FiniteSets, TLC

VARIABLES
    pc,         \* position of the stream of control
    after,      \* how the try block was left: what follows the finally clause
    userToken,  \* config.user_token is set (token login) or not (password login)
    rooms,      \* client.rooms: ids of the rooms the session has joined
    attempt,    \* loop variable of `for attempt in range(3)`
    ev,         \* the event handed to Callbacks.unknown (with its room)
    args,       \* arguments of the running _reaction call
    target,     \* reacted_to_event, once fetched
    notices,    \* messages sent to the star room, in order
    nEvents,    \* number of events routed so far
    h,          \* history of the current / last handler invocation
    cyc,        \* history of the current connection cycle
    stack       \* handler invocations suspended in `await self.client.sync()`

vars == <<pc, after, userToken, rooms, attempt, ev, args, target, notices,
          nEvents, h, cyc, stack>>

---------------------------------------------------------------------------
(* Bounds of the model *)

\* events routed in one behaviour
MaxEvents == 2
\* LocalProtocolError send failures in one handler invocation
MaxFails == 2
\* the cycle counter saturates here (0 = first cycle)
MaxCycles == 1
\* handler invocations suspended at the same time
MaxDepth == 1

---------------------------------------------------------------------------
(* Values *)

\* Python's None
NoneVal == "<None>"

StarRoomId == "!star:hs"
OriginRoomId == "!origin:hs"
RoomIds == {StarRoomId, OriginRoomId}

\* client.user, the bot's own account, and another account
BotUser == "@bot:hs"
OtherUser == "@alice:hs"
Users == {BotUser, OtherUser}

\* Strings that matter by their code points are sequences of code points.
\* The literal of callbacks.py line 83: U+2B50 followed by U+FE0F.
StarGlyph == <<11088, 65039>>
\* the same star without the variation selector
BareStar == <<11088>>
\* relation metadata without a "key": .get("key") gives None
NoKey == <<>>
Keys == {StarGlyph, BareStar, NoKey}

ReactionType == "m.reaction"
AnnotationRelType == "m.annotation"
\* event ids: of the message reacted to, and of a reaction event itself
TargetEventId == "$target"
ReactionEventId == "$reaction"

\* range(3) of the join loop
JoinAttempts == 3
\* sleep(15)
BackoffSeconds == 15

\* The events of the UnknownEvent class.
UnknownEvents ==
    [ type         : {ReactionType, "m.custom"},
      event_id     : {ReactionEventId},
      sender       : Users,
      room         : RoomIds,
      rel_event_id : {NoneVal, "", TargetEventId},
      rel_type     : {NoneVal, AnnotationRelType, "m.replace"},
      key          : Keys,
      megolm       : BOOLEAN ]

\* The events the transport may hand to the callback: every annotation with
\* a target, and, of the other events, those that differ from an accepted
\* star annotation only in what the router reads (type, relation type,
\* related event id).
Events ==
    { e \in UnknownEvents :
        \/ /\ e.type = ReactionType
           /\ e.rel_type = AnnotationRelType
           /\ e.rel_event_id = TargetEventId
        \/ /\ e.sender = BotUser
           /\ e.room = OriginRoomId
           /\ e.key = StarGlyph
           /\ ~e.megolm }

NoEvent == [type |-> NoneVal]
NoArgs == [room |-> NoneVal]
NoTarget == [event_id |-> NoneVal]

\* What room_get_event gives back for the target: a decrypted message, or an
\* undecrypted MegolmEvent.
Targets ==
    [ event_id : {TargetEventId},
      sender   : {OtherUser},
      body     : {"hello"},
      megolm   : BOOLEAN ]

\* room.display_name
DisplayName(room_id) ==
    IF room_id = StarRoomId THEN "Stars" ELSE "Origin"

\* make_pill(user_id)
make_pill(user_id) == <<"pill", user_id>>

\* Python truthiness of an optional string
Truthy(s) == s # NoneVal /\ s # ""

\* exceptions a client call may raise
ConnectionErrors == {"ClientConnectionError", "ServerDisconnectedError"}
RaisedByCalls == ConnectionErrors \cup {"OtherError"}

NewH ==
    [ result       |-> "none",
      dispatches   |-> 0,
      fetches      |-> 0,
      fetchOutcome |-> "none",
      checks       |-> 0,
      firstCheck   |-> "none",
      sends        |-> 0,
      firstSend    |-> "none",
      lpeFails     |-> 0,
      resyncs      |-> 0,
      base         |-> 0,
      routing      |-> 0,
      unknown      |-> "none",
      fetched      |-> NoTarget,
      fetchedBefore   |-> {},
      deliveredBefore |-> {} ]

NewCyc(n) ==
    [ n          |-> n,
      logins     |-> 0,
      joins      |-> 0,
      joinErrors |-> 0,
      sleeps     |-> 0,
      slept      |-> 0,
      closes     |-> 0,
      authFailed |-> FALSE,
      raisedFrom |-> "none",
      raisedKind |-> "none" ]

Init ==
    /\ pc = "login"
    /\ after = "loop"
    /\ userToken \in BOOLEAN
    /\ rooms = {}
    /\ attempt = 0
    /\ ev = NoEvent
    /\ args = NoArgs
    /\ target = NoTarget
    /\ notices = <<>>
    /\ nEvents = 0
    /\ h = NewH
    /\ cyc = NewCyc(0)
    /\ stack = <<>>

---------------------------------------------------------------------------
(* Helpers shared by the steps *)

Min(a, b) == IF a < b THEN a ELSE b

\* what client.rooms may hold after a sync response
JoinedSets == {{OriginRoomId}, {OriginRoomId, StarRoomId}}

\* Variant: the except clause lists ClientConnectionError alone.
CaughtClientOnly == {"ClientConnectionError"}

\* Variant: a bare `except Exception:` in main().
CaughtAny == ConnectionErrors \cup {"OtherError", "LocalProtocolError", "NameError"}

\* except (ClientConnectionError, ServerDisconnectedError) of main()
Caught == ConnectionErrors

\* An exception of kind k leaves the call made at `where` and unwinds to the
\* try statement of main(): the except clause if it is listed there, otherwise
\* straight to the finally clause, after which it leaves main().
\* c is the cycle history up to the call.
Propagate(c, k, where) ==
    /\ cyc' = [c EXCEPT !.raisedFrom = where, !.raisedKind = k]
    /\ IF k \in Caught
         THEN pc' = "except" /\ after' = after
         ELSE pc' = "finally" /\ after' = "raise"

---------------------------------------------------------------------------
(* main(): the reconnect loop *)

\* Variant: a failed login treated like a lost connection (sleep and retry).
LoginFailedRetried(c) ==
    /\ cyc' = [c EXCEPT !.authFailed = TRUE]
    /\ pc' = "except"
    /\ after' = "loop"

\* Variant: a failed login ends the process at once (sys.exit), the finally
\* clause not run.
LoginFailedNoClose(c) ==
    /\ cyc' = [c EXCEPT !.authFailed = TRUE]
    /\ pc' = "exit"
    /\ after' = "return"

\* A failed login (LoginError returned, or LocalProtocolError raised by
\* client.login): logged, then `return False` from inside the try block.
LoginFailed(c) ==
    /\ cyc' = [c EXCEPT !.authFailed = TRUE]
    /\ pc' = "finally"
    /\ after' = "return"

\* Top of `while True`: token login (load_store, keys_upload) or password login.
main_login ==
    /\ pc = "login"
    /\ ev' = NoEvent /\ args' = NoArgs /\ target' = NoTarget /\ h' = NewH
    /\ UNCHANGED <<userToken, rooms, attempt, notices, nEvents, stack>>
    /\ LET c == [NewCyc(cyc.n) EXCEPT !.logins = 1] IN
       \E o \in (IF userToken THEN {"ok"}
                 ELSE {"LoginResponse", "LoginError", "LocalProtocolError"})
                \cup RaisedByCalls :
          IF o \in {"ok", "LoginResponse"}
            THEN /\ cyc' = c
                 /\ pc' = "join_check"
                 /\ after' = "loop"
          ELSE IF o \in {"LoginError", "LocalProtocolError"}
            THEN LoginFailed(c)
          ELSE Propagate(c, o, "login")

\* `if config.star_room_id not in client.rooms:` ... `else:` already joined
main_join_check ==
    /\ pc = "join_check"
    /\ IF StarRoomId \notin rooms
         THEN pc' = "join" /\ attempt' = 0
         ELSE pc' = "sync" /\ attempt' = attempt
    /\ UNCHANGED <<after, userToken, rooms, ev, args, target, notices,
                   nEvents, h, cyc, stack>>

\* The branch taken for a JoinError result:
\*   logger.error(f"Error joining room {room.room_id} (attempt %d): %s", ...)
\* main() binds no name `room`, so evaluating the f-string raises NameError
\* before anything is logged.
JoinErrorLogged(c) ==
    /\ attempt' = attempt
    /\ Propagate([c EXCEPT !.joinErrors = @ + 1], "NameError", "join_log")

\* One pass of `for attempt in range(3)`: client.join and the logging of its
\* result.  A successful join does not leave the loop, and does not change
\* client.rooms (only a sync does).
main_join ==
    /\ pc = "join"
    /\ attempt < JoinAttempts
    /\ UNCHANGED <<userToken, rooms, ev, args, target, notices, nEvents, h,
                   stack>>
    /\ \E o \in {"JoinResponse", "JoinError"} \cup RaisedByCalls :
         LET c == [cyc EXCEPT !.joins = @ + 1] IN
         IF o = "JoinResponse"
           THEN /\ cyc' = c
                /\ attempt' = attempt + 1
                /\ pc' = IF attempt + 1 < JoinAttempts THEN "join" ELSE "sync"
                /\ after' = after
         ELSE IF o = "JoinError"
           THEN JoinErrorLogged(c)
         ELSE /\ attempt' = attempt
              /\ Propagate(c, o, "join")

\* client.sync_forever: a sync response refreshes client.rooms, the call
\* returns, or the long poll raises.  (Events are handed to `unknown`, below.)
main_sync_forever ==
    /\ pc = "sync"
    /\ UNCHANGED <<userToken, attempt, ev, args, target, notices, nEvents, h,
                   stack>>
    /\ \E o \in {"SyncResponse", "return"} \cup RaisedByCalls :
         IF o = "SyncResponse"
           THEN /\ \E r \in JoinedSets : rooms' = r
                /\ UNCHANGED <<pc, after, cyc>>
         ELSE IF o = "return"
           THEN /\ rooms' = rooms
                /\ pc' = "finally"
                /\ after' = "loop"
                /\ cyc' = cyc
         ELSE /\ rooms' = rooms
              /\ Propagate(cyc, o, "sync_forever")

\* The except clause: warn, sleep(15); the finally clause follows.
ConnectionLost ==
    /\ cyc' = [cyc EXCEPT !.sleeps = @ + 1, !.slept = @ + BackoffSeconds]
    /\ pc' = "finally"
    /\ after' = "loop"

\* except (ClientConnectionError, ServerDisconnectedError)
main_except ==
    /\ pc = "except"
    /\ ConnectionLost
    /\ UNCHANGED <<userToken, rooms, attempt, ev, args, target, notices,
                   nEvents, h, stack>>

\* What follows the finally clause: the next pass of `while True` when the
\* try statement completed, the end of main() on a return or an exception.
AfterFinally == IF after = "loop" THEN "login" ELSE "exit"

\* finally: await client.close()
main_finally ==
    /\ pc = "finally"
    /\ cyc' = [cyc EXCEPT !.closes = @ + 1,
                          !.n = IF AfterFinally = "login"
                                  THEN Min(@ + 1, MaxCycles) ELSE @]
    /\ pc' = AfterFinally
    /\ UNCHANGED <<after, userToken, rooms, attempt, ev, args, target, notices,
                   nEvents, h, stack>>

---------------------------------------------------------------------------
(* Callbacks.unknown: the router *)

\* Variant: `reacted_to or rel_type == "m.annotation"`.
DispatchableEither(e) ==
    /\ e.type = ReactionType
    /\ (Truthy(e.rel_event_id) \/ e.rel_type = AnnotationRelType)

\* event.type == "m.reaction", and `reacted_to and rel_type == "m.annotation"`
Dispatchable(e) ==
    /\ e.type = ReactionType
    /\ Truthy(e.rel_event_id)
    /\ e.rel_type = AnnotationRelType

\* Variant: add_event_callback called at the top of every pass of
\* `while True` instead of once before it.
event_callbacks_per_cycle == cyc.n + 1

\* The callbacks registered on the client for UnknownEvent:
\* client.add_event_callback(callbacks.unknown, (UnknownEvent,)) runs once,
\* before `while True`, on the one client every cycle uses.
event_callbacks == 1

\* Variant: the handler is started as a task of its own
\* (asyncio.ensure_future) and `unknown` returns at once.
ReactionScheduled == "returned"

\* `await self._reaction(room, event, reacted_to)`: the call of `unknown` is
\* suspended until _reaction has ended.
ReactionAwaited == "awaiting"

\* What an invocation knows of the session so far: nothing, the handler keeps
\* no record.  (The history carries, for the properties, the targets fetched
\* and the events delivered by the invocations before this one.)
Carry(hh, e) ==
    [NewH EXCEPT
       !.base = Len(notices),
       !.fetchedBefore = hh.fetchedBefore \cup
           (IF hh.fetches > 0 THEN {e.rel_event_id} ELSE {}),
       !.deliveredBefore = hh.deliveredBefore \cup
           (IF hh.result = "delivered" THEN {e} ELSE {})]

\* The callback registered for UnknownEvent, run inside sync_forever for an
\* event of a joined room, once per registration: calls _reaction and awaits
\* it, or logs and returns.
unknown ==
    /\ pc = "sync"
    /\ LET again == ev # NoEvent /\ h.routing < event_callbacks IN
       /\ again \/ nEvents < MaxEvents
       /\ nEvents' = IF again THEN nEvents ELSE nEvents + 1
       /\ \E e \in (IF again THEN {ev} ELSE Events) :
            /\ again \/ e.room \in rooms
            /\ ev' = e
            /\ LET hh == [Carry(h, ev) EXCEPT
                            !.routing = IF again THEN h.routing + 1 ELSE 1]
               IN
               IF Dispatchable(e)
                 THEN /\ pc' = "reaction"
                      /\ args' = [room |-> e.room, event |-> e,
                                  reacted_to_id |-> e.rel_event_id]
                      /\ h' = [hh EXCEPT !.dispatches = 1,
                                         !.unknown = ReactionAwaited]
                 ELSE /\ pc' = "sync"
                      /\ args' = NoArgs
                      /\ h' = [hh EXCEPT !.result = "ignored",
                                         !.unknown = "returned"]
    /\ target' = NoTarget
    /\ UNCHANGED <<after, userToken, rooms, attempt, notices, cyc, stack>>

---------------------------------------------------------------------------
(* Callbacks._reaction: the handler *)

\* `return` (or `break` out of the loop, which ends the function): `unknown`
\* returns too, and control is back in the sync that delivered the event:
\* sync_forever, or the client.sync() of a suspended invocation.
Return(hh, result) ==
    /\ h' = [hh EXCEPT !.result = result, !.unknown = "returned"]
    /\ pc' = IF stack = <<>> THEN "sync" ELSE "returned"
    /\ args' = NoArgs
    /\ target' = NoTarget
    /\ UNCHANGED <<after, cyc, stack>>

\* An exception leaves _reaction and unknown, and unwinds to main(): through
\* sync_forever, and through every suspended invocation on the way (their
\* client.sync() is awaited inside the except clause, not inside a try).
Raise(hh, k, where) ==
    /\ h' = [hh EXCEPT !.result = "raised", !.unknown = "raised"]
    /\ args' = NoArgs
    /\ target' = NoTarget
    /\ stack' = <<>>
    /\ Propagate(cyc, k, where)

\* Variant: the key compared without its variation selector.
FilterBaseGlyph(event, room_id) ==
    IF event.sender # BotUser THEN "other_user"
    ELSE IF room_id = StarRoomId THEN "in_star_room"
    ELSE IF event.key = NoKey \/ Head(event.key) # Head(StarGlyph) THEN "other_key"
    ELSE "accepted"

\* Variant: a reaction whose notice was already delivered in this session is
\* dropped by the filters.
FilterOnce(event, room_id) ==
    IF event.sender # BotUser THEN "other_user"
    ELSE IF room_id = StarRoomId THEN "in_star_room"
    ELSE IF event.key # StarGlyph \/ event \in h.deliveredBefore THEN "other_key"
    ELSE "accepted"

\* The filters after the fetch: sender, room, key, in this order.
Filter(event, room_id) ==
    IF event.sender # BotUser THEN "other_user"
    ELSE IF room_id = StarRoomId THEN "in_star_room"
    ELSE IF event.key # StarGlyph THEN "other_key"
    ELSE "accepted"

\* Variant: a RoomGetEventError answered by fetching again.
FetchErrorRetried(hh) ==
    /\ h' = hh
    /\ pc' = "reaction"
    /\ UNCHANGED <<after, args, target, cyc, stack>>

\* What the handler does with a RoomGetEventError: warn and return.
FetchError(hh) == Return(hh, "fetch_error")

\* Variant: the sender, room and key filters applied before room_get_event.
reaction_filter_then_fetch ==
    /\ pc = "reaction"
    /\ UNCHANGED <<userToken, rooms, attempt, ev, notices, nEvents>>
    /\ IF args.event.megolm
         THEN Return(h, "undecrypted")
       ELSE IF Filter(args.event, args.room) # "accepted"
         THEN Return(h, Filter(args.event, args.room))
       ELSE \E o \in {"RoomGetEventResponse", "RoomGetEventError"}
                      \cup RaisedByCalls :
            \E t \in Targets :
              LET hh == [h EXCEPT !.fetches = @ + 1,
                                  !.fetched =
                                      IF o = "RoomGetEventResponse"
                                        THEN t ELSE NoTarget,
                                  !.fetchOutcome =
                                      IF o = "RoomGetEventResponse"
                                        THEN (IF t.megolm THEN "megolm" ELSE "ok")
                                        ELSE o]
              IN
              IF o = "RoomGetEventError" THEN FetchError(hh)
              ELSE IF o \in RaisedByCalls THEN Raise(hh, o, "fetch")
              ELSE IF t.megolm THEN Return(hh, "target_undecrypted")
              ELSE /\ h' = hh
                   /\ target' = t
                   /\ pc' = "check"
                   /\ UNCHANGED <<after, args, cyc, stack>>

\* From the entry of _reaction to the delivery loop: the MegolmEvent test,
\* room_get_event, the test of the fetched event, the filters, make_pill.
reaction_fetch ==
    /\ pc = "reaction"
    /\ UNCHANGED <<userToken, rooms, attempt, ev, notices, nEvents>>
    /\ IF args.event.megolm
         THEN Return(h, "undecrypted")
         ELSE \E o \in {"RoomGetEventResponse", "RoomGetEventError"}
                        \cup RaisedByCalls :
              \E t \in Targets :
                LET hh == [h EXCEPT !.fetches = @ + 1,
                                    !.fetched =
                                        IF o = "RoomGetEventResponse"
                                          THEN t ELSE NoTarget,
                                    !.fetchOutcome =
                                        IF o = "RoomGetEventResponse"
                                          THEN (IF t.megolm THEN "megolm" ELSE "ok")
                                          ELSE o]
                IN
                IF o = "RoomGetEventError" THEN FetchError(hh)
                ELSE IF o \in RaisedByCalls THEN Raise(hh, o, "fetch")
                ELSE IF t.megolm THEN Return(hh, "target_undecrypted")
                ELSE IF Filter(args.event, args.room) # "accepted"
                  THEN Return(hh, Filter(args.event, args.room))
                ELSE /\ h' = hh
                     /\ target' = t
                     /\ pc' = "check"
                     /\ UNCHANGED <<after, args, cyc, stack>>

\* Variant: the membership test logs but does not `break`.
NotJoinedIgnored(hh) ==
    /\ h' = hh
    /\ pc' = "send"
    /\ UNCHANGED <<after, args, target, cyc, stack>>

\* `if self.config.star_room_id not in self.client.rooms: ... break`
NotJoined(hh) == Return(hh, "abandoned")

\* Top of `while True`: the membership test.
reaction_check ==
    /\ pc = "check"
    /\ UNCHANGED <<userToken, rooms, attempt, ev, notices, nEvents>>
    /\ LET joined == StarRoomId \in rooms
           hh == [h EXCEPT !.checks = @ + 1,
                           !.firstCheck =
                               IF @ = "none"
                                 THEN (IF joined THEN "joined" ELSE "not_joined")
                                 ELSE @]
       IN
       IF ~joined
         THEN NotJoined(hh)
         ELSE /\ h' = hh
              /\ pc' = "send"
              /\ UNCHANGED <<after, args, target, cyc, stack>>

\* Links are sequences of characters.  "https://matrix.to/#/"
MatrixTo ==
    << "h", "t", "t", "p", "s", ":", "/", "/", "m", "a", "t", "r", "i", "x",
       ".", "t", "o", "/", "#", "/" >>

\* "?via=lant.uk"
Via == << "?", "v", "i", "a", "=", "l", "a", "n", "t", ".", "u", "k" >>

\* the characters of the identifiers of the model
IdChars(id) ==
    CASE id = StarRoomId      -> << "!", "s", "t", "a", "r", ":", "h", "s" >>
      [] id = OriginRoomId    -> << "!", "o", "r", "i", "g", "i", "n", ":", "h", "s" >>
      [] id = TargetEventId   -> << "$", "t", "a", "r", "g", "e", "t" >>
      [] id = ReactionEventId -> << "$", "r", "e", "a", "c", "t", "i", "o", "n" >>

\* Variant: the link built without the "/" between the two ids.
deep_link_unseparated(room_id, event_id) ==
    MatrixTo \o room_id \o event_id \o Via

\* f"https://matrix.to/#/{room.room_id}/{reacted_to_event.event_id}?via=lant.uk":
\* the ids are put into the text as they are, nothing is escaped.
deep_link(room_id, event_id) ==
    MatrixTo \o room_id \o << "/" >> \o event_id \o Via

\* Variant: the notice names the reacting account and links to the reaction
\* event, and is sent as a notice.
NoticeOfReaction(room_id, t) ==
    [ room_id |-> StarRoomId,
      notice  |-> TRUE,
      body    |-> << "<a href=\"", MatrixTo \o IdChars(room_id), "\">",
                     DisplayName(room_id), "</a>", <<8212>>,
                     make_pill(BotUser), ": ", t.body,
                     " [->](",
                     deep_link(IdChars(room_id), IdChars(ReactionEventId)),
                     ")" >> ]

\* The message of the send: room, body (the pieces of the f-string, in
\* order), notice flag.
Notice(room_id, t) ==
    [ room_id |-> StarRoomId,
      notice  |-> FALSE,
      body    |-> << "<a href=\"", MatrixTo \o IdChars(room_id), "\">",
                     DisplayName(room_id), "</a>", <<8212>>,
                     make_pill(t.sender), ": ", t.body,
                     " [->](",
                     deep_link(IdChars(room_id), IdChars(t.event_id)),
                     ")" >> ]

\* Variant: the try statement around the send has no except clause.
HandlerCatchesNothing == {}

\* the exceptions the try statement around the send catches
HandlerCatches == {"LocalProtocolError"}

\* Variant: the `return` after a successful send is missing.
SentNoReturn(hh) ==
    /\ h' = hh
    /\ pc' = "check"
    /\ UNCHANGED <<after, args, target, cyc, stack>>

\* Variant: the except clause retries without `await self.client.sync()`.
LocalProtocolErrorNoSync(hh) ==
    /\ h' = [hh EXCEPT !.lpeFails = @ + 1]
    /\ pc' = "check"
    /\ UNCHANGED <<after, args, target, cyc, stack>>

\* After a send that returned: log the result, `return`.
Sent(hh) == Return(hh, "delivered")

\* except LocalProtocolError as e: log it, then `await self.client.sync()`
LocalProtocolErrorCaught(hh) ==
    /\ h' = [hh EXCEPT !.lpeFails = @ + 1]
    /\ pc' = "resync"
    /\ UNCHANGED <<after, args, target, cyc, stack>>

\* The ways a call of send_text_to_room(client, room_id, message, notice) ends:
\* the message is in the room and the response is returned, the client raises
\* LocalProtocolError (the session is not ready to send), or another exception
\* is raised.
send_text_to_room == {"RoomSendResponse", "LocalProtocolError"} \cup RaisedByCalls

\* send_text_to_room inside try / except LocalProtocolError.
reaction_send ==
    /\ pc = "send"
    /\ UNCHANGED <<userToken, rooms, attempt, ev, nEvents>>
    /\ \E o \in send_text_to_room :
         LET hh == [h EXCEPT !.sends = @ + 1,
                             !.firstSend = IF @ = "none" THEN o ELSE @]
         IN
         IF o = "RoomSendResponse"
           THEN /\ notices' = Append(notices, Notice(args.room, target))
                /\ Sent(hh)
         ELSE IF o \in HandlerCatches
           THEN /\ h.lpeFails < MaxFails
                /\ notices' = notices
                /\ LocalProtocolErrorCaught(hh)
         ELSE /\ notices' = notices
              /\ Raise(hh, o, "send")

\* Variant: after the resync the send is tried again at once.
ResyncedThenSend(hh) ==
    /\ h' = hh
    /\ pc' = "send"
    /\ UNCHANGED <<after, args, target, cyc, stack>>

\* client.sync() has returned: the except clause ends and `while True` starts
\* its next pass, at the membership test.
Resynced(hh) ==
    /\ h' = hh
    /\ pc' = "check"
    /\ UNCHANGED <<after, args, target, cyc, stack>>

\* `await self.client.sync()` in the except clause, then the loop again.
reaction_sync ==
    /\ pc = "resync"
    /\ UNCHANGED <<userToken, attempt, ev, notices, nEvents>>
    /\ \E o \in {"SyncResponse", "LocalProtocolError"} \cup RaisedByCalls :
         LET hh == [h EXCEPT !.resyncs = @ + 1] IN
         IF o = "SyncResponse"
           THEN /\ \E r \in JoinedSets : rooms' = r
                /\ Resynced(hh)
           ELSE /\ rooms' = rooms
                /\ Raise(hh, o, "resync")

\* An invocation suspended in `await self.client.sync()`: its locals, its
\* history (the sync it is in counted), and the number of notices in the star
\* room at that moment.
Frame ==
    [ ev     |-> ev,
      args   |-> args,
      target |-> target,
      h      |-> [h EXCEPT !.resyncs = @ + 1],
      mark   |-> Len(notices) ]

\* `await self.client.sync()` whose response carries an annotation: the client
\* handles the response as it handles every sync response, refreshing
\* client.rooms and calling the callbacks registered on it, so `unknown` and
\* _reaction run for the new event while the invocation that asked for the
\* sync is suspended in its except clause.  (A response whose event `unknown`
\* only logs is the plain response of reaction_sync.)
reaction_sync_event ==
    /\ pc = "resync"
    /\ nEvents < MaxEvents
    /\ Len(stack) < MaxDepth
    /\ \E r \in JoinedSets, e \in Events :
         /\ e.room \in r
         /\ Dispatchable(e)
         /\ rooms' = r
         /\ ev' = e
         /\ args' = [room |-> e.room, event |-> e,
                     reacted_to_id |-> e.rel_event_id]
         /\ h' = [Carry(h, ev) EXCEPT !.routing = 1, !.dispatches = 1,
                                      !.unknown = ReactionAwaited]
    /\ stack' = Append(stack, Frame)
    /\ pc' = "reaction"
    /\ target' = NoTarget
    /\ nEvents' = nEvents + 1
    /\ UNCHANGED <<after, userToken, attempt, notices, cyc>>

\* The callback has returned into the client.sync() of the suspended
\* invocation, which returns: that invocation goes on with its loop.
reaction_sync_return ==
    /\ pc = "returned"
    /\ LET f == stack[Len(stack)] IN
       /\ ev' = f.ev
       /\ args' = f.args
       /\ target' = f.target
       /\ h' = [f.h EXCEPT
                  !.base = @ + (Len(notices) - f.mark),
                  !.fetchedBefore = @ \cup
                      (IF h.fetches > 0 THEN {ev.rel_event_id} ELSE {}),
                  !.deliveredBefore = @ \cup
                      (IF h.result = "delivered" THEN {ev} ELSE {})]
    /\ stack' = SubSeq(stack, 1, Len(stack) - 1)
    /\ pc' = "check"
    /\ UNCHANGED <<after, userToken, rooms, attempt, notices, nEvents, cyc>>

---------------------------------------------------------------------------
(* The program *)

Next ==
    \/ main_login
    \/ main_join_check
    \/ main_join
    \/ main_sync_forever
    \/ main_except
    \/ main_finally
    \/ unknown
    \/ reaction_fetch
    \/ reaction_check
    \/ reaction_send
    \/ reaction_sync
    \/ reaction_sync_event
    \/ reaction_sync_return

Spec == Init /\ [][Next]_vars

\* The stream of control does not stop inside the except and finally clauses:
\* sleep(15) returns and client.close() returns.
FairSpec == Spec /\ WF_vars(main_except) /\ WF_vars(main_finally)

\* Every call the handler awaits ends (room_get_event, send_text_to_room,
\* client.sync and the callback it runs), and the membership test is taken.
LoopFairSpec ==
    /\ Spec
    /\ WF_vars(reaction_fetch)
    /\ WF_vars(reaction_check)
    /\ WF_vars(reaction_send)
    /\ WF_vars(reaction_sync)
    /\ WF_vars(reaction_sync_return)

---------------------------------------------------------------------------
(* The deep link on its own: built from any two ids, then read back *)

\* length of an id
MaxIdLen == 2

\* characters of an id: a plain one, and the two the link itself uses
LinkChars == {"a", "/", "?"}

LinkIds ==
    UNION { [1..n -> LinkChars] : n \in 1..MaxIdLen }

\* position of the first c in the sequence s, 0 if there is none
First(s, c) ==
    IF \E i \in 1..Len(s) : s[i] = c
      THEN CHOOSE i \in 1..Len(s) :
             s[i] = c /\ \A j \in 1..(i - 1) : s[j] # c
      ELSE 0

\* Reading a matrix.to link: after "https://matrix.to/#/" the path runs to the
\* first "?", where the query begins; the room id is the path up to its first
\* "/", the event id what follows.
ParseLink(link) ==
    LET rest == SubSeq(link, Len(MatrixTo) + 1, Len(link))
        q    == First(rest, "?")
        path == IF q = 0 THEN rest ELSE SubSeq(rest, 1, q - 1)
        sl   == First(path, "/")
    IN  IF sl = 0
          THEN [room_id |-> path, event_id |-> << >>]
          ELSE [room_id  |-> SubSeq(path, 1, sl - 1),
                event_id |-> SubSeq(path, sl + 1, Len(path))]

LinkInit ==
    /\ pc = "link"
    /\ args \in [room_id : LinkIds, event_id : LinkIds]
    /\ target = NoTarget
    /\ after = "loop"
    /\ userToken = FALSE
    /\ rooms = {}
    /\ attempt = 0
    /\ ev = NoEvent
    /\ notices = <<>>
    /\ nEvents = 0
    /\ h = NewH
    /\ cyc = NewCyc(0)
    /\ stack = <<>>

\* the link is built
LinkFormat ==
    /\ pc = "link"
    /\ target' = [link |-> deep_link(args.room_id, args.event_id)]
    /\ pc' = "parse"
    /\ UNCHANGED <<after, userToken, rooms, attempt, ev, args, notices,
                   nEvents, h, cyc, stack>>

\* the link is read back
LinkParse ==
    /\ pc = "parse"
    /\ target' = [link |-> target.link, parsed |-> ParseLink(target.link)]
    /\ pc' = "parsed"
    /\ UNCHANGED <<after, userToken, rooms, attempt, ev, args, notices,
                   nEvents, h, cyc, stack>>

LinkNext == LinkFormat \/ LinkParse

LinkSpec == LinkInit /\ [][LinkNext]_vars

---------------------------------------------------------------------------
(* Properties *)

HandlerPcs == {"reaction", "check", "send", "resync"}

\* notices sent by the current / last handler invocation
Delivered == Len(notices) - h.base

\* The last routed event is a star reaction of the bot, decrypted, on a target
\* event, outside the star room.
HappyEvent ==
    /\ ev # NoEvent
    /\ ev.type = "m.reaction"
    /\ ev.rel_type = "m.annotation"
    /\ ev.rel_event_id = TargetEventId
    /\ ev.sender = BotUser
    /\ ev.room # StarRoomId
    /\ ev.key = <<11088, 65039>>
    /\ ~ev.megolm

\* Nothing the environment answered so far was unfavourable: the fetch (if
\* made) gave a decrypted target, the first membership test (if made) found
\* the star room joined, the first send (if made) succeeded.
NothingWentWrong ==
    /\ h.fetchOutcome \in {"none", "ok"}
    /\ h.firstCheck \in {"none", "joined"}
    /\ h.firstSend \in {"none", "RoomSendResponse"}

\* C1: a star reaction of the bot outside the star room, routed through
\* `unknown`, whose target is fetched decrypted, with the star room joined and
\* the first send succeeding, ends with exactly one fetch, one send attempt,
\* no resync, and exactly one notice delivered to the star room.
C1_HappyPath ==
    (HappyEvent /\ NothingWentWrong) =>
        /\ h.dispatches = 1
        /\ h.sends <= 1
        /\ h.resyncs = 0
        /\ h.result \in {"none", "delivered"}
        /\ h.result = "delivered" =>
              /\ h.fetches = 1
              /\ h.checks = 1
              /\ h.sends = 1
              /\ Delivered = 1
              /\ notices[Len(notices)].room_id = StarRoomId
              /\ pc \notin HandlerPcs

C1_Witness ==
    /\ HappyEvent
    /\ NothingWentWrong
    /\ h.result = "delivered"
    /\ h.sends = 1
    /\ Delivered = 1

\* C2: an invocation that ends delivered after k local-protocol send failures
\* made exactly k resyncs, k+1 send attempts and k+1 membership tests, and
\* delivered exactly one notice; the delivered invocation is over: control is
\* outside the handler, so nothing more is tested, sent or resynced.
C2_RetryAccounting ==
    h.result = "delivered" =>
        /\ h.resyncs = h.lpeFails
        /\ h.sends = h.lpeFails + 1
        /\ h.checks = h.lpeFails + 1
        /\ Delivered = 1
        /\ pc \notin HandlerPcs

C2_Witness ==
    /\ h.result = "delivered"
    /\ h.lpeFails = 2
    /\ h.resyncs = 2
    /\ h.sends = 3
    /\ Delivered = 1

\* C3: a membership test that finds the star room not joined ends the
\* invocation (abandoned) with no send and no resync after it; when it is the
\* first test, the invocation made no send attempt and no resync at all.
\* This holds for every event handled, also a repeated one.
C3_NotJoinedAbandons ==
    [][ (pc = "check" /\ StarRoomId \notin rooms) =>
            /\ h'.result = "abandoned"
            /\ pc' \in {"sync", "returned"}
            /\ h'.sends = h.sends
            /\ h'.resyncs = h.resyncs
            /\ notices' = notices
            /\ (h'.checks = 1 => h'.sends = 0 /\ h'.resyncs = 0 /\ Delivered' = 0)
      ]_vars

C3_Witness ==
    /\ h.result = "abandoned"
    /\ h.firstCheck = "not_joined"
    /\ h.sends = 0
    /\ h.resyncs = 0
    /\ nEvents = 2
    /\ StarRoomId \notin rooms

\* C4: whenever the handler is in its delivery loop or has made a send
\* attempt, the reaction was sent by the bot, outside the star room, with
\* exactly the key U+2B50 U+FE0F; otherwise no notice was sent for it.
C4_FiltersNecessary ==
    (ev # NoEvent /\ (h.sends > 0 \/ Delivered > 0 \/ pc \in {"check", "send", "resync"})) =>
        /\ ev.sender = BotUser
        /\ ev.room # StarRoomId
        /\ ev.key = <<11088, 65039>>

C4_Witness ==
    /\ ev # NoEvent
    /\ h.sends > 0
    /\ Delivered = 1
    /\ nEvents = 2

\* C5: the router calls the handler, once and with (room, event, target id),
\* exactly when the type is m.reaction, the relation has a non-empty event_id
\* and rel_type is m.annotation; otherwise nothing is fetched, sent or
\* resynced.
C5_RouterDispatch ==
    ev # NoEvent =>
        /\ h.dispatches =
              (IF /\ ev.type = "m.reaction"
                  /\ ev.rel_event_id \notin {NoneVal, ""}
                  /\ ev.rel_type = "m.annotation"
               THEN 1 ELSE 0)
        /\ h.dispatches = 0 =>
              /\ h.result = "ignored"
              /\ h.fetches = 0 /\ h.checks = 0 /\ h.sends = 0 /\ h.resyncs = 0
              /\ Delivered = 0
              /\ pc \notin HandlerPcs
        /\ pc \in HandlerPcs =>
              args = [room |-> ev.room, event |-> ev,
                      reacted_to_id |-> ev.rel_event_id]

C5_Witness ==
    /\ ev # NoEvent
    /\ ev.type = "m.reaction"
    /\ ev.rel_type = "m.annotation"
    /\ ev.rel_event_id = ""
    /\ h.dispatches = 0
    /\ nEvents = 2

\* C6 as stated: whenever the fetch of the target fails - with an error result
\* or with a transport error - the handler made exactly one fetch, no
\* membership test, no send and no resync, and returned normally.
C6_AsStated ==
    h.fetchOutcome \in {"RoomGetEventError"} \cup ConnectionErrors =>
        /\ h.fetches = 1
        /\ h.checks = 0 /\ h.sends = 0 /\ h.resyncs = 0
        /\ h.result = "fetch_error"

\* C6, amended: when the fetch returns an error result the handler made
\* exactly one fetch, no membership test, no send and no resync, and returned
\* normally (control is back in the receive loop's hands).  When the fetch
\* raises, there is likewise one fetch and nothing after it, but the handler
\* does not return: the exception leaves it and reaches main().
C6_FetchFailureTerminal ==
    /\ h.fetchOutcome = "RoomGetEventError" =>
          /\ h.fetches = 1
          /\ h.checks = 0 /\ h.sends = 0 /\ h.resyncs = 0
          /\ Delivered = 0
          /\ h.result = "fetch_error"
          /\ pc \notin HandlerPcs
          /\ cyc.raisedFrom # "fetch"
    /\ h.fetchOutcome \in RaisedByCalls =>
          /\ h.fetches = 1
          /\ h.checks = 0 /\ h.sends = 0 /\ h.resyncs = 0
          /\ Delivered = 0
          /\ h.result = "raised"
          /\ cyc.raisedFrom = "fetch"
          /\ pc \in {"except", "finally", "login", "exit"}

C6_Witness ==
    /\ h.fetchOutcome = "RoomGetEventError"
    /\ h.result = "fetch_error"
    /\ h.fetches = 1
    /\ pc = "sync"
    /\ nEvents = 1

\* The cycle ended by a connection-level failure: where control may be, and
\* what has been done, from the failure to the next authentication attempt.
AfterConnectionLoss ==
    \/ pc = "except" /\ cyc.sleeps = 0 /\ cyc.closes = 0
    \/ pc = "finally" /\ after = "loop" /\ cyc.sleeps = 1 /\ cyc.closes = 0
    \/ pc = "login" /\ cyc.sleeps = 1 /\ cyc.closes = 1
                    /\ cyc.slept = BackoffSeconds

\* C7: after a connection-level failure anywhere in a cycle, one sleep is
\* taken and the session is closed once, and the next authentication attempt
\* always follows, in whatever cycle the failure happened.
C7_ReconnectAfterConnectionLoss ==
    /\ [](cyc.raisedKind \in ConnectionErrors => AfterConnectionLoss)
    /\ (cyc.raisedKind \in ConnectionErrors) ~>
          (pc = "login" /\ cyc.sleeps = 1 /\ cyc.closes = 1)

C7_Witness ==
    /\ pc = "login"
    /\ cyc.raisedFrom = "sync_forever"
    /\ cyc.raisedKind = "ServerDisconnectedError"
    /\ cyc.sleeps = 1
    /\ cyc.closes = 1
    /\ cyc.n = MaxCycles

\* C8 as stated: a failure other than a local-protocol error raised by the
\* send or by the resync never ends the process.
C8_AsStated ==
    (cyc.raisedFrom \in {"send", "resync"} /\ cyc.raisedKind # "LocalProtocolError")
        => pc # "exit"

\* C8, amended: a failure other than a local-protocol error raised by the send
\* or by the resync is not caught by the handler and reaches main(); a
\* connection-level failure is followed by the sleep, the close and the next
\* authentication attempt; any other failure is followed by the close and the
\* end of the process, with no sleep.
C8_DeliveryFailurePropagates ==
    (cyc.raisedFrom \in {"send", "resync"} /\ cyc.raisedKind # "LocalProtocolError") =>
        /\ pc \notin HandlerPcs
        /\ h.result = "raised"
        /\ cyc.raisedKind \in ConnectionErrors => AfterConnectionLoss
        /\ cyc.raisedKind \notin ConnectionErrors =>
              /\ pc \in {"finally", "exit"}
              /\ after = "raise"
              /\ cyc.sleeps = 0
              /\ cyc.closes = (IF pc = "exit" THEN 1 ELSE 0)

C8_Witness ==
    /\ cyc.raisedFrom = "resync"
    /\ cyc.raisedKind = "OtherError"
    /\ pc = "exit"
    /\ cyc.closes = 1

\* C9: a failed join attempt raises nothing out of the join loop.
C9_JoinFailureNonFatal ==
    cyc.joinErrors > 0 => (cyc.raisedFrom # "join_log" /\ pc # "exit")

\* C10: after a failed login nothing but the close of the session and the end
\* of the process follows: no second authentication attempt, no join attempt,
\* no receive loop, no sleep - in the first cycle and in later ones.
C10_AuthFailureFatal ==
    cyc.authFailed =>
        /\ pc \in {"finally", "exit"}
        /\ after = "return"
        /\ cyc.logins = 1
        /\ cyc.joins = 0
        /\ cyc.sleeps = 0
        /\ cyc.closes = (IF pc = "exit" THEN 1 ELSE 0)

C10_Witness ==
    /\ cyc.authFailed
    /\ pc = "exit"
    /\ cyc.n = MaxCycles
    /\ cyc.closes = 1

\* The delivery loop of _reaction: membership test, send, resync.
LoopPcs == {"check", "send", "resync"}

\* C11 as stated: the call of `unknown` has completed while the handler it
\* started is still running, in its delivery loop included.
C11_AsStated ==
    pc \in HandlerPcs => h.unknown = "returned"

\* C11: `unknown` awaits the handler.  While _reaction runs (or is suspended
\* in its resync) the call of `unknown` that started it has not completed;
\* it completes only once the handler has returned, and it ends by the
\* handler's exception when the handler raises.
C11_RouterAwaitsHandler ==
    /\ pc \in HandlerPcs => h.unknown = "awaiting" /\ h.result = "none"
    /\ \A i \in 1..Len(stack) :
          stack[i].h.unknown = "awaiting" /\ stack[i].h.result = "none"
    /\ h.unknown = "returned" <=> h.result \notin {"none", "raised"}
    /\ h.unknown = "raised" <=> h.result = "raised"
    /\ h.unknown = "awaiting" => pc \in HandlerPcs

C11_Witness ==
    /\ pc = "resync"
    /\ h.lpeFails = MaxFails
    /\ h.unknown = "awaiting"


\* Handler invocations that have started and not ended: the suspended ones
\* and the running one.
ActiveInvocations ==
    Len(stack) + (IF pc \in HandlerPcs \cup {"returned"} THEN 1 ELSE 0)

\* C12: events are handled strictly one at a time: at most one handler
\* invocation has started and not ended, the forced resync of the retry loop
\* included.
C12_OneAtATime ==
    ActiveInvocations <= 1


\* C13: the message sent is a text message (not a notice) to the star room
\* whose body is, in order: the anchor to the origin room shown as its display
\* name, an em-dash, the pill of the sender of the TARGET message (not of the
\* reacting account), a colon, the target's body as fetched, and the link
\* [->](https://matrix.to/#/<origin room id>/<target event id>?via=lant.uk),
\* made of the origin room id and the id of the target, not of the reaction.
C13_NoticeContent ==
    (h.result = "delivered") =>
        LET n == notices[Len(notices)]
            t == h.fetched
        IN
        /\ n.room_id = StarRoomId
        /\ n.notice = FALSE
        /\ Len(n.body) = 12
        /\ n.body[1] = "<a href=\""
        /\ n.body[2] = MatrixTo \o IdChars(ev.room)
        /\ n.body[3] = "\">"
        /\ n.body[4] = DisplayName(ev.room)
        /\ n.body[5] = "</a>"
        /\ n.body[6] = <<8212>>
        /\ n.body[7] = make_pill(t.sender)
        /\ n.body[7] # make_pill(ev.sender)
        /\ n.body[8] = ": "
        /\ n.body[9] = t.body
        /\ n.body[10] = " [->]("
        /\ n.body[11] = MatrixTo \o IdChars(ev.room) \o <<"/">>
                            \o IdChars(t.event_id) \o Via
        /\ n.body[11] # MatrixTo \o IdChars(ev.room) \o <<"/">>
                            \o IdChars(ev.event_id) \o Via
        /\ n.body[12] = ")"
        /\ ev.room # StarRoomId
        /\ t.event_id = ev.rel_event_id

C13_Witness ==
    /\ h.result = "delivered"
    /\ ev.room = OriginRoomId
    /\ ev.sender = BotUser
    /\ h.fetched.sender = OtherUser
    /\ Len(notices) = 1


\* the characters of a sequence
Range(s) == { s[i] : i \in 1..Len(s) }

\* C14 as stated: for every room id and event id, reading the link back
\* gives exactly the two ids it was built from.
C14_AsStated ==
    (pc = "parsed") =>
        target.parsed = [room_id |-> args.room_id, event_id |-> args.event_id]

\* C14: the ids are put into the link unescaped, so the round trip holds for
\* the ids that do not contain the link's own delimiters: a room id without
\* "/" and without "?", and an event id without "?" (it may contain "/").
C14_DeepLinkRoundTrip ==
    (/\ pc = "parsed"
     /\ "/" \notin Range(args.room_id)
     /\ "?" \notin Range(args.room_id)
     /\ "?" \notin Range(args.event_id)) =>
        /\ target.link = MatrixTo \o args.room_id \o <<"/">>
                             \o args.event_id \o Via
        /\ target.parsed = [room_id |-> args.room_id, event_id |-> args.event_id]

C14_Witness ==
    /\ pc = "parsed"
    /\ args.room_id = <<"a", "a">>
    /\ args.event_id = <<"a", "/">>
    /\ target.parsed.room_id = <<"a", "a">>
    /\ target.parsed.event_id = <<"a", "/">>


\* C15 as stated: no second notice is delivered for a star annotation whose
\* notice was already delivered in this connected session.
C15_AsStated ==
    (h.result = "delivered") => ev \notin h.deliveredBefore

\* C15: the handler keeps no record of the annotations it has handled.  An
\* accepted star annotation whose target is fetched passes the filters every
\* time it is routed, whether or not its notice was delivered before; a
\* routing that ends delivered has added one notice, and for an annotation
\* delivered before in the session that notice repeats an earlier one.
C15_NoDeduplication ==
    /\ (HappyEvent /\ h.fetchOutcome = "ok") =>
           h.result \in {"none", "delivered", "abandoned", "raised"}
    /\ (h.result = "delivered") =>
           /\ Delivered = 1
           /\ Len(notices) >= 1
    /\ (h.result = "delivered" /\ ev \in h.deliveredBefore) =>
           \E i \in 1..(Len(notices) - 1) : notices[i] = notices[Len(notices)]

C15_Witness ==
    /\ h.result = "delivered"
    /\ ev \in h.deliveredBefore
    /\ Len(notices) = 2
    /\ notices[1] = notices[2]
    /\ cyc.n = 0


\* C16: the membership of the star room is read again before every send.
\* A send is reached only from a membership test that found the star room
\* joined, with client.rooms untouched in between; a resync is followed by the
\* membership test (or by the handling of an event the resync delivered, or by
\* its exception), never by a send; a membership test after a resync that
\* finds the room missing ends the invocation as abandoned, with no further
\* send and no further resync.
C16_MembershipBeforeSend ==
    [][ /\ (pc' = "send") =>
              /\ pc = "check"
              /\ StarRoomId \in rooms
              /\ rooms' = rooms
              /\ h'.checks = h.checks + 1
        /\ (pc = "send") =>
              /\ StarRoomId \in rooms
              /\ h.checks = h.sends + 1
              /\ h'.sends = h.sends + 1
        /\ (pc = "resync") =>
              /\ pc' \in {"check", "reaction", "except", "finally"}
              /\ (pc' = "check") =>
                    /\ h'.resyncs = h.resyncs + 1
                    /\ h'.sends = h.sends
                    /\ notices' = notices
        /\ (pc = "returned") => pc' = "check"
        /\ (pc = "check" /\ h.resyncs > 0 /\ StarRoomId \notin rooms) =>
              /\ h'.result = "abandoned"
              /\ pc' \in {"sync", "returned"}
              /\ h'.checks = h.resyncs + 1
              /\ h'.sends = h.sends
              /\ h'.resyncs = h.resyncs
              /\ notices' = notices
      ]_vars

C16_Witness ==
    /\ h.result = "abandoned"
    /\ h.resyncs = 2
    /\ h.sends = 2
    /\ h.checks = 3
    /\ Delivered = 0

\* C17 as stated: an invocation that entered the delivery loop and has ended,
\* every resync it made having returned, ended delivered or abandoned.
C17_AsStated ==
    (h.checks > 0 /\ pc \notin HandlerPcs /\ cyc.raisedFrom # "resync") =>
        h.result \in {"delivered", "abandoned"}

\* The way an invocation that entered the delivery loop has ended: delivered,
\* abandoned, or by an exception of the send or the resync, which is never
\* the LocalProtocolError of a send (that one is caught and retried).
LoopOutcome ==
    /\ (h.checks > 0 /\ pc \notin HandlerPcs) =>
           h.result \in {"delivered", "abandoned", "raised"}
    /\ (h.checks > 0 /\ h.result = "raised") =>
           /\ cyc.raisedFrom \in {"send", "resync"}
           /\ cyc.raisedFrom = "send" => cyc.raisedKind # "LocalProtocolError"

\* C17: with every awaited call ending and the LocalProtocolError failures of
\* the send bounded, every invocation that enters the delivery loop ends:
\* delivered, abandoned, or by an exception raised by the send (other than
\* LocalProtocolError) or by the resync.
C17_LoopTerminates ==
    /\ []LoopOutcome
    /\ (pc \in LoopPcs) ~> (pc \notin HandlerPcs \cup {"returned"})

C17_Witness ==
    /\ h.result = "delivered"
    /\ h.lpeFails = MaxFails
    /\ h.resyncs = MaxFails
    /\ pc = "sync"


\* the results of the filters that follow the fetch
FilterRejections == {"other_user", "in_star_room", "other_key"}

\* C18: an invocation for a decrypted reaction event makes exactly one fetch
\* of the target, before the sender, room and key filters: an annotation those
\* filters reject has caused one fetch all the same.  Nothing is cached: the
\* fetch is made again for a target an earlier invocation of the session has
\* fetched.  An invocation for an undecrypted reaction event makes no fetch.
C18_FetchOncePerInvocation ==
    /\ h.fetches <= 1
    /\ (h.dispatches = 1 /\ ev.megolm) =>
           /\ h.fetches = 0
           /\ h.result \in {"none", "undecrypted"}
    /\ (h.dispatches = 1 /\ ~ev.megolm) =>
           /\ h.fetches = (IF pc = "reaction" THEN 0 ELSE 1)
           /\ h.result # "undecrypted"
    /\ (h.result \in FilterRejections) =>
           /\ h.fetches = 1
           /\ h.fetchOutcome = "ok"
           /\ h.checks = 0
    /\ (h.dispatches = 0) => h.fetches = 0

C18_Witness ==
    /\ h.result = "other_user"
    /\ h.fetches = 1
    /\ ev.rel_event_id \in h.fetchedBefore
    /\ nEvents = 2


\* C19: every connection cycle ends with exactly one client.close(), however
\* it ends (connection error, failed login, return of sync_forever, any other
\* exception), and the next authentication starts only after that close.
\* While a cycle runs nothing is closed; once it has ended (control at the top
\* of the loop again, or out of main) it has been closed exactly once.
C19_CloseEveryCycle ==
    /\ cyc.logins <= 1
    /\ cyc.closes <= 1
    /\ (pc \notin {"login", "exit"}) => (cyc.logins = 1 /\ cyc.closes = 0)
    /\ (pc = "login") => (cyc.closes = cyc.logins)
    /\ (pc = "login" /\ cyc.logins = 0) => cyc.n = 0
    /\ (pc = "exit") => (cyc.logins = 1 /\ cyc.closes = 1)
    /\ (cyc.authFailed \/ cyc.raisedKind # "none") =>
           (pc \in {"login", "exit"} <=> cyc.closes = 1)

C19_Witness ==
    /\ pc = "login"
    /\ cyc.logins = 1
    /\ cyc.closes = 1
    /\ cyc.raisedKind = "none"
    /\ ~cyc.authFailed
    /\ cyc.sleeps = 0

\* C20: the callback is registered once, before the loop, on the client every
\* cycle uses: in whatever cycle an event arrives it is handed to `unknown`
\* once, and an accepted star annotation delivers one notice, not one per
\* cycle; the star room never holds more notices than events were received.
C20_SingleRegistration ==
    /\ h.routing <= 1
    /\ (ev # NoEvent) => h.routing = 1
    /\ (h.result = "delivered") => Delivered = 1
    /\ Len(notices) <= nEvents

C20_Witness ==
    /\ cyc.n >= 1
    /\ pc = "sync"
    /\ h.result = "delivered"
    /\ h.routing = 1
    /\ nEvents = 1
    /\ Len(notices) = 1

===========================================================================
